---- MODULE Spec2Model ----
(***************************************************************************)
(* A model of create_vps.py: one run of main() against the Vultr API, the *)
(* four resolvers, the quota guard and the readiness poller.               *)
(*                                                                         *)
(* A Python dict is a sequence of items [key, details] with distinct keys, *)
(* in the dict's iteration (insertion) order.  A provider call is modelled *)
(* by the value the provider returns at that call.                         *)
(***************************************************************************)
EXTENDS Integers, Sequences, FiniteSets, TLC

VARIABLES
  pc,                \* position of the run in main() / poll_server()
  catalog,           \* provider: the plan, OS, region and SSH-key listings
  servers,           \* provider: the instance list as of the latest server call
  servers_dict,      \* main(): servers_dict (line 179)
  plans_dict,        \* main(): plans_dict
  os_dict,           \* main(): os_dict
  regions_dict,      \* main(): regions_dict
  ssh_keys_dict,     \* main(): ssh_keys_dict
  target_plan,       \* main(): target_plan
  target_os,         \* main(): target_os
  target_datacenter, \* main(): target_datacenter
  target_ssh_key,    \* main(): target_ssh_key
  poll_servers_dict, \* poll_server(): servers_dict (line 153)
  server_state,      \* poll_server(): server_state
  timeout,           \* poll_server(): timeout
  raised,            \* the exception that ended the run, or NoException
  stdout,            \* the lines printed by the latest step
  calls,             \* provider calls issued by main(), in order
  nSleep,            \* history: time.sleep(2) calls made by poll_server()
  nFetch,            \* history: instance lists fetched by poll_server()
  nEmpty,            \* history: empty instance lists fetched by poll_server()
  seenReady          \* history: a fetched list showed the target active and ok

vars == <<pc, catalog, servers, servers_dict, plans_dict, os_dict, regions_dict,
          ssh_keys_dict, target_plan, target_os, target_datacenter,
          target_ssh_key, poll_servers_dict, server_state, timeout, raised,
          stdout, calls, nSleep, nFetch, nEmpty, seenReady>>

----------------------------------------------------------------------------
(* Module constants, lines 8-17 *)

TARGET_OS == "Debian 10 x64 (buster)"
TARGET_PLAN_PRICE == "5.00"
TARGET_DATACENTER == "Toronto"
HOSTNAME == "bgp-coldnorthadmin"
TARGET_SSHKEY == "bgp-coldnorthadmin"

(* An attribute value of each dimension that differs from the target. *)
OTHER_OS == "Ubuntu 18.04 x64"
OTHER_PLAN_PRICE == "10.00"
OTHER_DATACENTER == "Paris"
OTHER_SSHKEY == "laptop"
OTHER_LABEL == "mail"

(* The literals of poll_server: the loop bound, the pause, the quota. *)
MaxRetry == 10
SleepSeconds == 2
MaxRunning == 1

(* Bounds of the model. *)
MaxCand == 3      \* items of a candidate dict in the resolver specification
MaxServers == 2   \* instances in a list the provider returns
MaxFetch == 12    \* the history counters saturate here

----------------------------------------------------------------------------
(* Python values *)

None == [py |-> "None"]
Unbound == [py |-> "unbound"]
NoException == [type |-> "none", message |-> <<>>]
Exception(t, m) == [type |-> t, message |-> m]

Item(k, d) == [key |-> k, details |-> d]

Dims == {"plan", "os", "datacenter", "sshkey"}

Target(dim) ==
  CASE dim = "plan" -> TARGET_PLAN_PRICE
    [] dim = "os" -> TARGET_OS
    [] dim = "datacenter" -> TARGET_DATACENTER
    [] dim = "sshkey" -> TARGET_SSHKEY

Other(dim) ==
  CASE dim = "plan" -> OTHER_PLAN_PRICE
    [] dim = "os" -> OTHER_OS
    [] dim = "datacenter" -> OTHER_DATACENTER
    [] dim = "sshkey" -> OTHER_SSHKEY

(* The record the provider lists for candidate k of a dimension. *)
Details(dim, k, a) ==
  CASE dim = "plan" -> [VPSPLANID |-> k, price_per_month |-> a]
    [] dim = "os" -> [OSID |-> k, name |-> a]
    [] dim = "datacenter" -> [DCID |-> k, name |-> a]
    [] dim = "sshkey" -> [SSHKEYID |-> k, name |-> a]

(* The attribute a resolver compares: lines 71, 93, 114, 134. *)
Attr(dim, d) == IF dim = "plan" THEN d.price_per_month ELSE d.name

(* All dicts of at most n items of a dimension, in every iteration order. *)
CandSets(dim, n) ==
  UNION { { s \in [1..len -> { Item(k, Details(dim, k, a)) :
                                  k \in 1..n, a \in {Target(dim), Other(dim)} }] :
              \A i, j \in 1..len : i # j => s[i].key # s[j].key } :
          len \in 0..n }

(* The provider numbers each dimension in a range of its own. *)
IdBase(dim) ==
  CASE dim = "plan" -> 200
    [] dim = "os" -> 350
    [] dim = "datacenter" -> 20
    [] dim = "sshkey" -> 0

(* The listings a whole run is checked against. *)
Fixtures(dim) ==
  LET t(k) == Item(IdBase(dim) + k, Details(dim, IdBase(dim) + k, Target(dim)))
      o(k) == Item(IdBase(dim) + k, Details(dim, IdBase(dim) + k, Other(dim)))
  IN { <<>>, <<o(1)>>, <<o(1), t(2)>>, <<t(1), t(2)>> }

(* An instance the provider lists: label, lifecycle status, health status. *)
Server(l, st, ss) == [label |-> l, status |-> st, server_state |-> ss]

ServerKinds ==
  { Server(HOSTNAME, "active", "ok"), Server(HOSTNAME, "active", "none"),
    Server(HOSTNAME, "pending", "none"), Server(OTHER_LABEL, "active", "ok") }

(* All instance lists of at most n instances; the key is the instance's SUBID. *)
ServerLists(n) ==
  UNION { { [i \in 1..len |-> Item(i, s[i])] : s \in [1..len -> ServerKinds] } :
          len \in 0..n }

----------------------------------------------------------------------------
(* The functions of create_vps.py *)

(* A faulty variant of check_return_value: the None test is left out. *)
check_return_value_unchecked(value, message) == NoException

(* check_return_value: the exception it raises, or NoException. *)
check_return_value(value, message) ==
  IF value = None THEN Exception("GenericMissingAttribute", message)
  ELSE NoException

Message(target) ==
  <<"We tried to find: ", target, " and nothing matched from Vultr">>

(* A faulty variant of get_limit_running_servers: > in place of >=. *)
get_limit_off_by_one(d) ==
  IF Len(d) > MaxRunning
  THEN Exception("MaxServerAlreadyRunning", <<"Maximum servers currently running">>)
  ELSE NoException

(* get_limit_running_servers: the exception it raises, or NoException. *)
get_limit_running_servers(d) ==
  IF Len(d) >= MaxRunning
  THEN Exception("MaxServerAlreadyRunning", <<"Maximum servers currently running">>)
  ELSE NoException

(* A faulty variant of ScanDict: the comparison is left out, every item overwrites. *)
RECURSIVE ScanDictNoTest(_, _, _, _)
ScanDictNoTest(dim, d, i, acc) ==
  IF i > Len(d) THEN acc
  ELSE ScanDictNoTest(dim, d, i + 1, d[i].details)

(* A faulty variant of ScanDict: the loop breaks at the first match. *)
RECURSIVE ScanDictBreak(_, _, _, _)
ScanDictBreak(dim, d, i, acc) ==
  IF i > Len(d) THEN acc
  ELSE IF Attr(dim, d[i].details) = Target(dim) THEN d[i].details
  ELSE ScanDictBreak(dim, d, i + 1, acc)

(* The for loop of a resolver from item i on: acc is the local that holds the *)
(* match so far (None or unbound before the first match).                     *)
RECURSIVE ScanDict(_, _, _, _)
ScanDict(dim, d, i, acc) ==
  IF i > Len(d) THEN acc
  ELSE ScanDict(dim, d, i + 1,
                IF Attr(dim, d[i].details) = Target(dim) THEN d[i].details ELSE acc)

(* What a resolver does with its local after the loop: reading an unbound    *)
(* local raises UnboundLocalError before check_return_value is entered.       *)
Outcome(t, local, target) ==
  IF t = Unbound
  THEN [raised |-> Exception("UnboundLocalError", <<local>>), value |-> Unbound]
  ELSE [raised |-> check_return_value(t, Message(target)),
        value |-> IF check_return_value(t, Message(target)) = NoException
                  THEN t ELSE Unbound]

get_ssh_key(d) ==
  Outcome(ScanDict("sshkey", d, 1, None), "target_ssh_key", TARGET_SSHKEY)

get_plan(d) ==
  Outcome(ScanDict("plan", d, 1, None), "target_plan", TARGET_PLAN_PRICE)

get_os(d) ==
  Outcome(ScanDict("os", d, 1, Unbound), "target_os", TARGET_OS)

get_datacenter(d) ==
  Outcome(ScanDict("datacenter", d, 1, Unbound), "target_datacenter", TARGET_DATACENTER)

(* A faulty variant of LoopCondition: <= in place of <. *)
LoopConditionInclusive(ss, t) == ss # TRUE /\ t <= MaxRetry

(* A faulty variant of LoopCondition: server_state is not tested. *)
LoopConditionNoState(ss, t) == t < MaxRetry

(* The while condition of poll_server. *)
LoopCondition(ss, t) == ss # TRUE /\ t < MaxRetry

(* A faulty variant of ScanServers: "and" in place of "or" in the readiness test. *)
RECURSIVE ScanServersAnd(_, _, _, _)
ScanServersAnd(d, i, ss, out) ==
  IF i > Len(d) THEN [server_state |-> ss, out |-> out]
  ELSE LET server_details == d[i].details IN
       IF server_details.label = HOSTNAME
       THEN IF server_details.status # "active" /\ server_details.server_state # "ok"
            THEN ScanServersAnd(d, i + 1, ss,
                   Append(out, <<"Expecting STATUS ACTIVE and SERVER_STATE OK but Vultr returned: ",
                                 server_details.status, server_details.server_state>>))
            ELSE ScanServersAnd(d, i + 1, TRUE, out)
       ELSE ScanServersAnd(d, i + 1, ss, out)

(* A faulty variant of ScanServers: an unready target sets server_state False. *)
RECURSIVE ScanServersLastWins(_, _, _, _)
ScanServersLastWins(d, i, ss, out) ==
  IF i > Len(d) THEN [server_state |-> ss, out |-> out]
  ELSE LET server_details == d[i].details IN
       IF server_details.label = HOSTNAME
       THEN IF server_details.status # "active" \/ server_details.server_state # "ok"
            THEN ScanServersLastWins(d, i + 1, FALSE,
                   Append(out, <<"Expecting STATUS ACTIVE and SERVER_STATE OK but Vultr returned: ",
                                 server_details.status, server_details.server_state>>))
            ELSE ScanServersLastWins(d, i + 1, TRUE, out)
       ELSE ScanServersLastWins(d, i + 1, ss, out)

(* The for loop of poll_server from item i on: ss is server_state, out the  *)
(* lines printed so far.                                                     *)
RECURSIVE ScanServers(_, _, _, _)
ScanServers(d, i, ss, out) ==
  IF i > Len(d) THEN [server_state |-> ss, out |-> out]
  ELSE LET server_details == d[i].details IN
       IF server_details.label = HOSTNAME
       THEN IF server_details.status # "active" \/ server_details.server_state # "ok"
            THEN ScanServers(d, i + 1, ss,
                   Append(out, <<"Expecting STATUS ACTIVE and SERVER_STATE OK but Vultr returned: ",
                                 server_details.status, server_details.server_state>>))
            ELSE ScanServers(d, i + 1, TRUE, out)
       ELSE ScanServers(d, i + 1, ss, out)

(* A faulty variant of PollBody: timeout += 1 sits at the level of the loop. *)
PollBodyCountsAll(d, ss, t) ==
  IF Len(d) = 0
  THEN [timeout |-> t + 1, server_state |-> ss,
        out |-> <<"There are no servers currently running or shutdown">>]
  ELSE [timeout |-> t + 1, server_state |-> ScanServers(d, 1, ss, <<>>).server_state,
        out |-> ScanServers(d, 1, ss, <<>>).out]

(* A faulty variant of PollBody: timeout += 1 is left out. *)
PollBodyNoCount(d, ss, t) ==
  IF Len(d) = 0
  THEN [timeout |-> t, server_state |-> ss,
        out |-> <<"There are no servers currently running or shutdown">>]
  ELSE [timeout |-> t, server_state |-> ScanServers(d, 1, ss, <<>>).server_state,
        out |-> ScanServers(d, 1, ss, <<>>).out]

(* A faulty variant of PollBody: every unready observation is counted. *)
PollBodyCountsUnready(d, ss, t) ==
  IF Len(d) = 0
  THEN [timeout |-> t + 1, server_state |-> ss,
        out |-> <<"There are no servers currently running or shutdown">>]
  ELSE [timeout |-> IF ScanServers(d, 1, ss, <<>>).server_state = TRUE THEN t ELSE t + 1,
        server_state |-> ScanServers(d, 1, ss, <<>>).server_state,
        out |-> ScanServers(d, 1, ss, <<>>).out]

(* A faulty variant of PollBody: a non-empty list resets the counter. *)
PollBodyResets(d, ss, t) ==
  IF Len(d) = 0
  THEN [timeout |-> t + 1, server_state |-> ss,
        out |-> <<"There are no servers currently running or shutdown">>]
  ELSE [timeout |-> 0, server_state |-> ScanServers(d, 1, ss, <<>>).server_state,
        out |-> ScanServers(d, 1, ss, <<>>).out]

(* The body of the while loop after the fetch: the new timeout, server_state *)
(* and the lines printed.                                                    *)
PollBody(d, ss, t) ==
  IF Len(d) = 0
  THEN [timeout |-> t + 1, server_state |-> ss,
        out |-> <<"There are no servers currently running or shutdown">>]
  ELSE [timeout |-> t, server_state |-> ScanServers(d, 1, ss, <<>>).server_state,
        out |-> ScanServers(d, 1, ss, <<>>).out]

(* The else clause of the while loop: it runs whenever the condition turns  *)
(* false, since the loop holds no break.                                     *)
WhileElse == <<"Server is Ready!">>

----------------------------------------------------------------------------
(* The run *)

mainLocals == <<servers_dict, plans_dict, os_dict, regions_dict, ssh_keys_dict,
                target_plan, target_os, target_datacenter, target_ssh_key>>
dicts == <<servers_dict, plans_dict, os_dict, regions_dict, ssh_keys_dict>>
targets == <<target_plan, target_os, target_datacenter, target_ssh_key>>
pollLocals == <<poll_servers_dict, server_state, timeout>>
history == <<nSleep, nFetch, nEmpty, seenReady>>

Call(op, args) == [op |-> op, args |-> args]

(* A faulty variant of CreateArgs: the label is left out of the options. *)
CreateArgsNoLabel ==
  <<target_datacenter.DCID, target_plan.VPSPLANID, target_os.OSID,
    [hostname |-> HOSTNAME, label |-> "", SSHKEYID |-> target_ssh_key.SSHKEYID]>>

(* A faulty variant of CreateArgs: the plan and datacenter IDs change places. *)
CreateArgsSwapped ==
  <<target_plan.VPSPLANID, target_datacenter.DCID, target_os.OSID,
    [hostname |-> HOSTNAME, label |-> HOSTNAME, SSHKEYID |-> target_ssh_key.SSHKEYID]>>

(* The arguments of vultr_client.server.create, line 195. *)
CreateArgs ==
  <<target_datacenter.DCID, target_plan.VPSPLANID, target_os.OSID,
    [hostname |-> HOSTNAME, label |-> HOSTNAME, SSHKEYID |-> target_ssh_key.SSHKEYID]>>

(* The provider's instance list after a create call with arguments args: the *)
(* new instance carries the label of the request and is still being set up.  *)
Created(L, args) ==
  Append(L, Item(Len(L) + 1, Server(args[4].label, "pending", "none")))

(* A fetched list shows the target instance active and ok. *)
HasReady(d) ==
  \E i \in 1..Len(d) : /\ d[i].details.label = HOSTNAME
                       /\ d[i].details.status = "active"
                       /\ d[i].details.server_state = "ok"

Sat(n) == IF n < MaxFetch THEN n + 1 ELSE MaxFetch

(* The state main() starts in, before line 179; catalog is the provider's. *)
InitLocals ==
  /\ servers = <<>>
  /\ servers_dict = <<>> /\ plans_dict = <<>> /\ os_dict = <<>>
  /\ regions_dict = <<>> /\ ssh_keys_dict = <<>>
  /\ target_plan = Unbound /\ target_os = Unbound
  /\ target_datacenter = Unbound /\ target_ssh_key = Unbound
  /\ poll_servers_dict = <<>> /\ server_state = FALSE /\ timeout = 0
  /\ raised = NoException /\ stdout = <<>> /\ calls = <<>>
  /\ nSleep = 0 /\ nFetch = 0 /\ nEmpty = 0 /\ seenReady = FALSE

Init ==
  /\ pc = "server_list"
  /\ catalog \in [Dims -> UNION { Fixtures(dim) : dim \in Dims }]
  /\ \A dim \in Dims : catalog[dim] \in Fixtures(dim)
  /\ InitLocals

(* line 179: servers_dict = vultr_client.server.list(), the provider holding L *)
ListServers(L) ==
  /\ pc = "server_list"
  /\ servers' = L
  /\ servers_dict' = L
  /\ calls' = Append(calls, Call("server.list", <<>>))
  /\ stdout' = <<>>
  /\ pc' = "quota"
  /\ UNCHANGED <<catalog, plans_dict, os_dict, regions_dict, ssh_keys_dict,
                 targets, pollLocals, raised, history>>

(* line 180: get_limit_running_servers(servers_dict) *)
CheckQuota ==
  /\ pc = "quota"
  /\ raised' = get_limit_running_servers(servers_dict)
  /\ pc' = IF raised' = NoException THEN "plans_list" ELSE "failed"
  /\ stdout' = <<>>
  /\ UNCHANGED <<catalog, servers, mainLocals, pollLocals, calls, history>>

(* lines 183-186: the four listings *)
ListPlans ==
  /\ pc = "plans_list"
  /\ plans_dict' = catalog["plan"]
  /\ calls' = Append(calls, Call("plans.list", <<>>))
  /\ stdout' = <<>>
  /\ pc' = "os_list"
  /\ UNCHANGED <<catalog, servers, servers_dict, os_dict, regions_dict,
                 ssh_keys_dict, targets, pollLocals, raised, history>>

ListOs ==
  /\ pc = "os_list"
  /\ os_dict' = catalog["os"]
  /\ calls' = Append(calls, Call("os.list", <<>>))
  /\ stdout' = <<>>
  /\ pc' = "regions_list"
  /\ UNCHANGED <<catalog, servers, servers_dict, plans_dict, regions_dict,
                 ssh_keys_dict, targets, pollLocals, raised, history>>

ListRegions ==
  /\ pc = "regions_list"
  /\ regions_dict' = catalog["datacenter"]
  /\ calls' = Append(calls, Call("regions.list", <<>>))
  /\ stdout' = <<>>
  /\ pc' = "sshkey_list"
  /\ UNCHANGED <<catalog, servers, servers_dict, plans_dict, os_dict,
                 ssh_keys_dict, targets, pollLocals, raised, history>>

ListSshKeys ==
  /\ pc = "sshkey_list"
  /\ ssh_keys_dict' = catalog["sshkey"]
  /\ calls' = Append(calls, Call("sshkey.list", <<>>))
  /\ stdout' = <<>>
  /\ pc' = "get_plan"
  /\ UNCHANGED <<catalog, servers, servers_dict, plans_dict, os_dict,
                 regions_dict, targets, pollLocals, raised, history>>

(* lines 188-191: the four resolutions; next is where the caller goes on *)
GetPlan(next) ==
  /\ pc = "get_plan"
  /\ raised' = get_plan(plans_dict).raised
  /\ target_plan' = get_plan(plans_dict).value
  /\ pc' = IF raised' = NoException THEN next ELSE "failed"
  /\ stdout' = <<>>
  /\ UNCHANGED <<catalog, servers, dicts, target_os, target_datacenter,
                 target_ssh_key, pollLocals, calls, history>>

GetOs(next) ==
  /\ pc = "get_os"
  /\ raised' = get_os(os_dict).raised
  /\ target_os' = get_os(os_dict).value
  /\ pc' = IF raised' = NoException THEN next ELSE "failed"
  /\ stdout' = <<>>
  /\ UNCHANGED <<catalog, servers, dicts, target_plan, target_datacenter,
                 target_ssh_key, pollLocals, calls, history>>

GetDatacenter(next) ==
  /\ pc = "get_datacenter"
  /\ raised' = get_datacenter(regions_dict).raised
  /\ target_datacenter' = get_datacenter(regions_dict).value
  /\ pc' = IF raised' = NoException THEN next ELSE "failed"
  /\ stdout' = <<>>
  /\ UNCHANGED <<catalog, servers, dicts, target_plan, target_os,
                 target_ssh_key, pollLocals, calls, history>>

GetSshKey(next) ==
  /\ pc = "get_ssh_key"
  /\ raised' = get_ssh_key(ssh_keys_dict).raised
  /\ target_ssh_key' = get_ssh_key(ssh_keys_dict).value
  /\ pc' = IF raised' = NoException THEN next ELSE "failed"
  /\ stdout' = <<>>
  /\ UNCHANGED <<catalog, servers, dicts, target_plan, target_os,
                 target_datacenter, pollLocals, calls, history>>

(* lines 194-196: the print, the create call with the provider holding L,  *)
(* and the entry of poll_server (lines 148-149)                             *)
Create(L) ==
  /\ pc = "create"
  /\ stdout' = <<"Creating server now">>
  /\ calls' = Append(calls, Call("server.create", CreateArgs))
  /\ servers' = Created(L, CreateArgs)
  /\ server_state' = FALSE
  /\ timeout' = 0
  /\ pc' = "poll_while"
  /\ UNCHANGED <<catalog, mainLocals, poll_servers_dict, raised, history>>

(* line 151: the condition holds, the body is entered *)
PollWhile ==
  /\ pc = "poll_while"
  /\ LoopCondition(server_state, timeout)
  /\ stdout' = <<>>
  /\ pc' = "poll_sleep"
  /\ UNCHANGED <<catalog, servers, mainLocals, pollLocals, raised, calls, history>>

(* lines 151, 166-167: the condition fails, the else clause runs *)
PollElse ==
  /\ pc = "poll_while"
  /\ ~LoopCondition(server_state, timeout)
  /\ stdout' = WhileElse
  /\ pc' = "done"
  /\ UNCHANGED <<catalog, servers, mainLocals, pollLocals, raised, calls, history>>

(* A faulty variant of PollSleep: the pause is left out. *)
PollNoSleep ==
  /\ pc = "poll_sleep"
  /\ stdout' = <<>>
  /\ pc' = "poll_fetch"
  /\ UNCHANGED <<catalog, servers, mainLocals, pollLocals, raised, calls, history>>

(* line 152: time.sleep(2) *)
PollSleep ==
  /\ pc = "poll_sleep"
  /\ nSleep' = Sat(nSleep)
  /\ stdout' = <<>>
  /\ pc' = "poll_fetch"
  /\ UNCHANGED <<catalog, servers, mainLocals, pollLocals, raised, calls,
                 nFetch, nEmpty, seenReady>>

(* line 153: servers_dict = vultr_client.server.list(), the provider holding L *)
PollFetch(L) ==
  /\ pc = "poll_fetch"
  /\ servers' = L
  /\ poll_servers_dict' = L
  /\ nFetch' = Sat(nFetch)
  /\ nEmpty' = IF Len(L) = 0 THEN Sat(nEmpty) ELSE nEmpty
  /\ seenReady' = (seenReady \/ HasReady(L))
  /\ stdout' = <<>>
  /\ pc' = "poll_if"
  /\ UNCHANGED <<catalog, mainLocals, server_state, timeout, raised, calls, nSleep>>

(* lines 155-165: the if/else on the fetched list *)
PollIf ==
  /\ pc = "poll_if"
  /\ timeout' = PollBody(poll_servers_dict, server_state, timeout).timeout
  /\ server_state' = PollBody(poll_servers_dict, server_state, timeout).server_state
  /\ stdout' = PollBody(poll_servers_dict, server_state, timeout).out
  /\ pc' = "poll_while"
  /\ UNCHANGED <<catalog, servers, mainLocals, poll_servers_dict, raised, calls, history>>

(* The provider call the run is about to issue. *)
CallAt(p) ==
  CASE p = "server_list" -> Call("server.list", <<>>)
    [] p = "plans_list" -> Call("plans.list", <<>>)
    [] p = "os_list" -> Call("os.list", <<>>)
    [] p = "regions_list" -> Call("regions.list", <<>>)
    [] p = "sshkey_list" -> Call("sshkey.list", <<>>)
    [] p = "create" -> Call("server.create", CreateArgs)
    [] p = "poll_fetch" -> Call("server.list", <<>>)

CallPcs == {"server_list", "plans_list", "os_list", "regions_list",
            "sshkey_list", "create", "poll_fetch"}

(* A faulty variant of ProviderFails: the error is caught and the call is retried. *)
ProviderFailsRetried ==
  /\ pc \in CallPcs
  /\ raised.type # "ProviderError"
  /\ raised' = Exception("ProviderError", <<CallAt(pc).op>>)
  /\ calls' = IF pc = "poll_fetch" THEN calls ELSE Append(calls, CallAt(pc))
  /\ stdout' = IF pc = "create" THEN <<"Creating server now">> ELSE <<>>
  /\ timeout' = IF pc = "poll_fetch" THEN timeout + 1 ELSE timeout
  /\ UNCHANGED <<pc, catalog, servers, mainLocals, poll_servers_dict, server_state,
                 history>>

(* A provider call raises: nothing in main() or poll_server() catches it. *)
ProviderFails ==
  /\ pc \in CallPcs
  /\ raised' = Exception("ProviderError", <<CallAt(pc).op>>)
  /\ calls' = IF pc = "poll_fetch" THEN calls ELSE Append(calls, CallAt(pc))
  /\ stdout' = IF pc = "create" THEN <<"Creating server now">> ELSE <<>>
  /\ pc' = "failed"
  /\ UNCHANGED <<catalog, servers, mainLocals, pollLocals, history>>

Next ==
  \/ \E L \in ServerLists(MaxServers) : ListServers(L)
  \/ CheckQuota
  \/ ListPlans
  \/ ListOs
  \/ ListRegions
  \/ ListSshKeys
  \/ GetPlan("get_os")
  \/ GetOs("get_datacenter")
  \/ GetDatacenter("get_ssh_key")
  \/ GetSshKey("create")
  \/ \E L \in ServerLists(MaxServers - 1) : Create(L)
  \/ PollWhile
  \/ PollElse
  \/ PollSleep
  \/ \E L \in ServerLists(MaxServers) : PollFetch(L)
  \/ PollIf
  \/ ProviderFails

Spec == Init /\ [][Next]_vars

----------------------------------------------------------------------------
(* A resolver on its own: the state after one listing returned a dict of at *)
(* most MaxCand items, then the resolver of that dimension.                  *)

ListOp(dim) ==
  CASE dim = "plan" -> "plans.list"
    [] dim = "os" -> "os.list"
    [] dim = "datacenter" -> "regions.list"
    [] dim = "sshkey" -> "sshkey.list"

GetPc(dim) ==
  CASE dim = "plan" -> "get_plan"
    [] dim = "os" -> "get_os"
    [] dim = "datacenter" -> "get_datacenter"
    [] dim = "sshkey" -> "get_ssh_key"

ResolveInit ==
  \E dim \in Dims : \E s \in CandSets(dim, MaxCand) :
    /\ pc = GetPc(dim)
    /\ catalog = [d \in Dims |-> IF d = dim THEN s ELSE <<>>]
    /\ plans_dict = catalog["plan"] /\ os_dict = catalog["os"]
    /\ regions_dict = catalog["datacenter"] /\ ssh_keys_dict = catalog["sshkey"]
    /\ calls = <<Call(ListOp(dim), <<>>)>>
    /\ servers = <<>> /\ servers_dict = <<>>
    /\ target_plan = Unbound /\ target_os = Unbound
    /\ target_datacenter = Unbound /\ target_ssh_key = Unbound
    /\ poll_servers_dict = <<>> /\ server_state = FALSE /\ timeout = 0
    /\ raised = NoException /\ stdout = <<>>
    /\ nSleep = 0 /\ nFetch = 0 /\ nEmpty = 0 /\ seenReady = FALSE

ResolveNext ==
  \/ GetPlan("returned")
  \/ GetOs("returned")
  \/ GetDatacenter("returned")
  \/ GetSshKey("returned")

ResolveSpec == ResolveInit /\ [][ResolveNext]_vars

----------------------------------------------------------------------------
(* The end-to-end scenario: no instance runs at the start, each listing holds *)
(* exactly one match, no provider call fails, and the provider lists the      *)
(* created instance from the create call on and brings it up.                 *)

LiveFixtures(dim) ==
  LET t(k) == Item(k, Details(dim, k, Target(dim)))
      o(k) == Item(k, Details(dim, k, Other(dim)))
  IN { <<t(1)>>, <<o(1), t(2)>>, <<t(2), o(1)>> }

LiveInit ==
  /\ pc = "server_list"
  /\ catalog \in [Dims -> UNION { LiveFixtures(dim) : dim \in Dims }]
  /\ \A dim \in Dims : catalog[dim] \in LiveFixtures(dim)
  /\ InitLocals

(* The provider brings the created instance up: pending, then active, then ok. *)
Booted(s) ==
  IF s.status = "pending" THEN Server(s.label, "active", s.server_state)
  ELSE Server(s.label, s.status, "ok")

ProviderBoots ==
  /\ pc \in {"poll_while", "poll_sleep", "poll_fetch", "poll_if"}
  /\ Len(servers) = 1
  /\ servers[1].details # Booted(servers[1].details)
  /\ servers' = <<Item(servers[1].key, Booted(servers[1].details))>>
  /\ UNCHANGED <<pc, catalog, mainLocals, pollLocals, raised, stdout, calls, history>>

LiveProgram ==
  \/ ListServers(<<>>)
  \/ CheckQuota
  \/ ListPlans
  \/ ListOs
  \/ ListRegions
  \/ ListSshKeys
  \/ GetPlan("get_os")
  \/ GetOs("get_datacenter")
  \/ GetDatacenter("get_ssh_key")
  \/ GetSshKey("create")
  \/ Create(<<>>)
  \/ PollWhile
  \/ PollElse
  \/ PollSleep
  \/ PollFetch(servers)
  \/ PollIf

LiveNext == LiveProgram \/ ProviderBoots

LiveSpec ==
  LiveInit /\ [][LiveNext]_vars /\ WF_vars(LiveProgram) /\ WF_vars(ProviderBoots)

----------------------------------------------------------------------------
(* Vocabulary of the claims *)

PollPcs == {"poll_while", "poll_sleep", "poll_fetch", "poll_if"}

(* poll_server has been entered (it may since have returned or raised). *)
PollerEntered == pc \in PollPcs \/ pc = "done" \/ (pc = "failed" /\ nSleep > 0)

(* The poller's state, read off its locals as the while condition reads them. *)
PollState ==
  IF server_state = TRUE THEN "Ready"
  ELSE IF timeout >= MaxRetry THEN "TimedOut"
  ELSE "Polling"

CreateCalls == Cardinality({ i \in 1..Len(calls) : calls[i].op = "server.create" })

(* The initial running-instance fetch returned and the quota guard has run. *)
QuotaChecked ==
  /\ pc \notin {"server_list", "quota"}
  /\ calls # <<>> /\ calls[1].op = "server.list"
  /\ ~(raised.type = "ProviderError" /\ Len(calls) = 1)

Dict(dim) ==
  CASE dim = "plan" -> plans_dict
    [] dim = "os" -> os_dict
    [] dim = "datacenter" -> regions_dict
    [] dim = "sshkey" -> ssh_keys_dict

TargetVar(dim) ==
  CASE dim = "plan" -> target_plan
    [] dim = "os" -> target_os
    [] dim = "datacenter" -> target_datacenter
    [] dim = "sshkey" -> target_ssh_key

(* The positions of a dict whose candidate matches the target of dim. *)
MatchesAt(dim, d) == { i \in 1..Len(d) : Attr(dim, d[i].details) = Target(dim) }

Max(S) == CHOOSE m \in S : \A x \in S : x <= m

(* In ResolveSpec: the resolver of dim has been applied to the listed dict. *)
Resolved(dim) ==
  /\ calls # <<>> /\ calls[1].op = ListOp(dim)
  /\ pc \in {"returned", "failed"}

(* The target of dim is bound to a candidate of the listing that matches. *)
IsMatch(dim) ==
  \E i \in MatchesAt(dim, catalog[dim]) : TargetVar(dim) = catalog[dim][i].details

----------------------------------------------------------------------------
(* The claims *)

C2_CreateOrdering ==
  /\ CreateCalls <= 1
  /\ (CreateCalls = 1 \/ pc = "create" \/ PollerEntered) =>
       /\ QuotaChecked /\ Len(servers_dict) = 0
       /\ \A dim \in Dims : IsMatch(dim)
       /\ [i \in 1..5 |-> calls[i].op] =
            <<"server.list", "plans.list", "os.list", "regions.list", "sshkey.list">>
       /\ CreateCalls = 1 => Len(calls) = 6 /\ calls[6].op = "server.create"
  /\ PollerEntered => CreateCalls = 1
  /\ raised.type \in {"MaxServerAlreadyRunning", "GenericMissingAttribute",
                      "UnboundLocalError"} =>
       /\ pc = "failed" /\ CreateCalls = 0 /\ ~PollerEntered
       /\ nSleep = 0 /\ nFetch = 0

C2_Witness ==
  /\ pc = "failed" /\ raised.type = "GenericMissingAttribute"
  /\ IsMatch("plan") /\ IsMatch("os") /\ IsMatch("datacenter")
  /\ CreateCalls = 0 /\ Len(calls) = 5

(* C3: for each of the four resolvers and every candidate set, the empty    *)
(* one included, in which no candidate matches, the resolver fails with     *)
(* GenericMissingAttribute naming the target value, and with no other       *)
(* error.                                                                    *)
C3_NotFound ==
  \A dim \in Dims :
    (Resolved(dim) /\ MatchesAt(dim, Dict(dim)) = {}) =>
      /\ pc = "failed"
      /\ raised = Exception("GenericMissingAttribute", Message(Target(dim)))

(* C4: for each resolver and every candidate set with exactly one matching  *)
(* candidate, the resolver returns exactly that candidate, whatever the     *)
(* number and order of the others, and leaves the set as listed.            *)
C4_UniqueMatch ==
  \A dim \in Dims :
    (Resolved(dim) /\ Cardinality(MatchesAt(dim, catalog[dim])) = 1) =>
      /\ pc = "returned" /\ raised = NoException
      /\ \A i \in MatchesAt(dim, catalog[dim]) :
           TargetVar(dim) = catalog[dim][i].details
      /\ Dict(dim) = catalog[dim]

C4_Witness ==
  /\ Resolved("datacenter") /\ pc = "returned"
  /\ Len(regions_dict) = 3 /\ MatchesAt("datacenter", regions_dict) = {1}
  /\ target_datacenter = regions_dict[1].details

(* C5: for each resolver and every candidate set with two or more matching  *)
(* candidates, the resolver returns the match met last in iteration order.  *)
C5_LastMatchWins ==
  \A dim \in Dims :
    (Resolved(dim) /\ Cardinality(MatchesAt(dim, Dict(dim))) >= 2) =>
      /\ pc = "returned" /\ raised = NoException
      /\ TargetVar(dim) = Dict(dim)[Max(MatchesAt(dim, Dict(dim)))].details

C5_Witness ==
  /\ Resolved("plan") /\ pc = "returned"
  /\ MatchesAt("plan", plans_dict) = {1, 2} /\ Len(plans_dict) = 3
  /\ target_plan = plans_dict[2].details
  /\ target_plan # plans_dict[1].details

(* C6: at every point of the poller outside the handling of a list just     *)
(* fetched, the poller is Ready exactly when the latest fetched list held   *)
(* an instance labelled HOSTNAME that is active and ok; and once such a     *)
(* list has been fetched the poller neither pauses nor fetches again.       *)
C6_ReadyIff ==
  /\ (PollerEntered /\ pc # "poll_if") =>
       ((PollState = "Ready") <=> (nFetch > 0 /\ HasReady(poll_servers_dict)))
  /\ seenReady => pc \in {"poll_if", "poll_while", "done"}

C6_Witness ==
  /\ pc = "done" /\ PollState = "Ready" /\ nFetch >= 2
  /\ Len(poll_servers_dict) = 2 /\ HasReady(poll_servers_dict)

(* C7: after ten fetches that all returned the empty list the attempt       *)
(* counter is 10, the poller is TimedOut, no exception was raised, and the  *)
(* poller neither pauses nor fetches an eleventh time.                      *)
C7_TenEmptyLists ==
  (PollerEntered /\ nFetch = MaxRetry /\ nEmpty = MaxRetry) =>
    /\ raised = NoException
    /\ pc \in {"poll_if", "poll_while", "done"}
    /\ pc = "poll_if" => timeout = MaxRetry - 1
    /\ pc # "poll_if" => timeout = MaxRetry /\ PollState = "TimedOut"

C7_Witness ==
  /\ pc = "done" /\ nFetch = MaxRetry /\ nEmpty = MaxRetry
  /\ timeout = MaxRetry /\ PollState = "TimedOut" /\ raised = NoException

(* C8: the line "Server is Ready!" is printed when the poller ends in Ready *)
(* and is not printed when it ends in TimedOut.                             *)
C8_ReadyMessage ==
  pc = "done" =>
    ((\E i \in 1..Len(stdout) : stdout[i] = "Server is Ready!")
       <=> PollState = "Ready")

(* C9: in the end-to-end scenario the run issues exactly one create call    *)
(* and the poller eventually ends in Ready.                                 *)
C9_EndToEnd ==
  /\ [](CreateCalls <= 1)
  /\ <>(pc = "done" /\ PollState = "Ready" /\ CreateCalls = 1)

C9_Witness ==
  /\ pc = "done" /\ PollState = "Ready" /\ CreateCalls = 1
  /\ nFetch >= 3 /\ timeout = 0
  /\ servers[1].details = Server(HOSTNAME, "active", "ok")

(* C10: as long as every fetched list is non-empty and none shows the       *)
(* target instance active and ok, the poller stays in Polling: it is        *)
(* neither Ready nor TimedOut and does not return, whatever the number of   *)
(* iterations.                                                              *)
C10_NoTimeoutOnNonEmpty ==
  (PollerEntered /\ nEmpty = 0 /\ ~seenReady) =>
    /\ PollState = "Polling"
    /\ pc # "done"
    /\ timeout = 0

C10_Witness ==
  /\ pc = "poll_while" /\ nFetch > MaxRetry /\ nEmpty = 0 /\ ~seenReady
  /\ PollState = "Polling"

(* The candidate of dim that the provider lists last among the matching ones. *)
LastMatch(dim) == catalog[dim][Max(MatchesAt(dim, catalog[dim]))].details

(* C11: every create request carries the datacenter, plan and OS IDs of the *)
(* candidates the resolvers returned (the last matching candidate of each   *)
(* listing), and options whose hostname and label are both HOSTNAME and     *)
(* whose SSH key ID is that of the resolved key.                            *)
C11_CreateRequest ==
  \A i \in 1..Len(calls) :
    calls[i].op = "server.create" =>
      /\ \A dim \in Dims : TargetVar(dim) = LastMatch(dim)
      /\ calls[i].args[1] = target_datacenter.DCID
      /\ calls[i].args[2] = target_plan.VPSPLANID
      /\ calls[i].args[3] = target_os.OSID
      /\ calls[i].args[4] = [hostname |-> HOSTNAME, label |-> HOSTNAME,
                             SSHKEYID |-> target_ssh_key.SSHKEYID]
      /\ Len(calls[i].args) = 4

C11_Witness ==
  /\ pc = "poll_while" /\ CreateCalls = 1
  /\ Cardinality(MatchesAt("plan", plans_dict)) = 2
  /\ Cardinality(MatchesAt("datacenter", regions_dict)) = 1
  /\ calls[6].args[1] = 22 /\ calls[6].args[2] = 202 /\ calls[6].args[3] = 352
  /\ calls[6].args[4].SSHKEYID = 2

(* The provider calls of main() in program order. *)
MainCalls ==
  <<"server.list", "plans.list", "os.list", "regions.list", "sshkey.list",
    "server.create">>

(* C12: once a provider call has raised, the run has ended: no step follows *)
(* (no retry, no later call), the failed call is the last one issued, each  *)
(* call of main() was issued at most once, and a failed fetch of the poller *)
(* is not counted in the attempt counter.                                   *)
C12_ProviderErrorAborts ==
  raised.type = "ProviderError" =>
    /\ pc = "failed"
    /\ ~ENABLED Next
    /\ [i \in 1..Len(calls) |-> calls[i].op] = SubSeq(MainCalls, 1, Len(calls))
    /\ IF nSleep = 0
       THEN /\ raised.message = <<calls[Len(calls)].op>>
            /\ nFetch = 0 /\ timeout = 0
       ELSE /\ raised.message = <<"server.list">>
            /\ Len(calls) = 6
            /\ timeout = nEmpty
            /\ nSleep < MaxFetch => nFetch = nSleep - 1

C12_Witness ==
  /\ raised.type = "ProviderError" /\ pc = "failed"
  /\ nSleep = 4 /\ nFetch = 3 /\ timeout = 2

(* C13, as stated: an iteration on an empty list adds exactly one to the    *)
(* attempt counter and leaves the poller in Polling; an iteration on a      *)
(* non-empty list that does not show the target active and ok leaves the    *)
(* counter unchanged.                                                       *)
C13_IterationEffect ==
  [][pc = "poll_if" =>
       IF Len(poll_servers_dict) = 0
       THEN timeout' = timeout + 1 /\ PollState' = "Polling"
       ELSE ~HasReady(poll_servers_dict) => timeout' = timeout]_vars

(* C13, amended: an iteration on an empty list adds exactly one to the      *)
(* attempt counter and leaves the poller in Polling while the counter is    *)
(* still below 10; the tenth empty list leaves it TimedOut.  An iteration   *)
(* on a non-empty list that does not show the target active and ok leaves   *)
(* the counter unchanged.                                                   *)
C13_IterationEffectAmended ==
  [][pc = "poll_if" =>
       IF Len(poll_servers_dict) = 0
       THEN /\ timeout' = timeout + 1
            /\ PollState' = IF timeout' < MaxRetry THEN "Polling" ELSE "TimedOut"
       ELSE ~HasReady(poll_servers_dict) => timeout' = timeout]_vars

C13_Witness ==
  /\ pc = "poll_while" /\ PollState = "Polling"
  /\ stdout = <<"There are no servers currently running or shutdown">>
  /\ timeout = 3 /\ nFetch = 5 /\ nEmpty = 3

(* C14: when the fetches so far were k empty lists followed by one list     *)
(* that shows the target active and ok, then k is at most 9, and once that  *)
(* list is handled the poller is Ready with the attempt counter equal to k  *)
(* and fetches no more: it ends after exactly k + 1 fetches.                *)
C14_EmptyThenReady ==
  (PollerEntered /\ seenReady /\ nFetch < MaxFetch /\ nEmpty = nFetch - 1) =>
    /\ nEmpty <= MaxRetry - 1
    /\ HasReady(poll_servers_dict)
    /\ pc \in {"poll_if", "poll_while", "done"}
    /\ timeout = nEmpty
    /\ pc # "poll_if" => PollState = "Ready"

C14_Witness ==
  /\ pc = "done" /\ PollState = "Ready" /\ seenReady
  /\ nFetch = MaxRetry /\ nEmpty = MaxRetry - 1 /\ timeout = MaxRetry - 1

(* The fetches so far that did not show the target active and ok: a ready   *)
(* observation ends the poll, so it can only be the latest one.             *)
UnreadyObservations == IF seenReady THEN nFetch - 1 ELSE nFetch

(* C15, as stated: whenever no fetched list awaits handling, the attempt    *)
(* counter equals the number of unready observations made so far, and it    *)
(* never exceeds 10.                                                        *)
C15_CounterIsUnready ==
  (PollerEntered /\ pc # "poll_if" /\ nFetch < MaxFetch) =>
    /\ timeout = UnreadyObservations
    /\ timeout <= MaxRetry

(* C15, amended: the attempt counter equals the number of empty lists       *)
(* fetched and handled so far (a non-empty list is not counted, ready or    *)
(* not), and it never exceeds 10.                                           *)
C15_CounterIsEmptyLists ==
  PollerEntered =>
    /\ timeout <= MaxRetry
    /\ timeout = IF pc = "poll_if" /\ Len(poll_servers_dict) = 0
                 THEN nEmpty - 1 ELSE nEmpty

C15_Witness ==
  /\ pc = "poll_while" /\ ~seenReady
  /\ nFetch = 6 /\ nEmpty = 2 /\ timeout = 2

(* The server.list calls poll_server has issued, the one that raised included. *)
FetchCalls ==
  IF pc = "failed" /\ raised.type = "ProviderError" /\ nSleep > 0
  THEN nFetch + 1 ELSE nFetch

(* C16: in the poller a fetch is issued only right after a pause, one pause *)
(* per fetch: when a fetch is about to be issued the pauses made are one    *)
(* more than the fetches issued, and at every other point the two numbers   *)
(* are equal.                                                               *)
C16_PauseBeforeFetch ==
  (PollerEntered /\ nSleep < MaxFetch) =>
    nSleep = IF pc = "poll_fetch" THEN FetchCalls + 1 ELSE FetchCalls

C16_Witness ==
  /\ pc = "poll_fetch" /\ nSleep = 4 /\ nFetch = 3

(* C17: the attempt counter never decreases during a poll, and whenever no  *)
(* fetched list awaits handling the poller is TimedOut exactly when ten     *)
(* empty lists have been fetched since the poll began and no list showed    *)
(* the target active and ok, whatever non-empty lists came in between.      *)
C17_CumulativeCounter ==
  /\ [][PollerEntered => timeout' >= timeout]_vars
  /\ []((PollerEntered /\ pc # "poll_if") =>
          ((PollState = "TimedOut") <=> (nEmpty = MaxRetry /\ ~seenReady)))

C17_Witness ==
  /\ pc = "done" /\ PollState = "TimedOut"
  /\ nEmpty = MaxRetry /\ nFetch > MaxRetry /\ ~seenReady
  /\ Len(poll_servers_dict) = 0

(* The positions of a fetched list whose instance carries the target label. *)
LabelledAt(d) == { i \in 1..Len(d) : d[i].details.label = HOSTNAME }

(* C18: once a fetched list with several instances labelled HOSTNAME, at    *)
(* least one of them active and ok, has been handled, the poller is Ready,  *)
(* whatever the state of the others and wherever they stand in the list.    *)
C18_AnyReadyInstance ==
  (PollerEntered /\ pc # "poll_if" /\ nFetch > 0
     /\ Cardinality(LabelledAt(poll_servers_dict)) >= 2
     /\ HasReady(poll_servers_dict)) =>
    /\ PollState = "Ready"
    /\ pc \in {"poll_while", "done"}

C18_Witness ==
  /\ pc = "done" /\ PollState = "Ready"
  /\ Len(poll_servers_dict) = 2
  /\ poll_servers_dict[1].details = Server(HOSTNAME, "active", "ok")
  /\ poll_servers_dict[2].details = Server(HOSTNAME, "pending", "none")

(* C19: when the create call has been issued the provider holds no other    *)
(* instance, so that it holds at most one instance after the call, also     *)
(* when other clients create instances between the initial fetch and the    *)
(* create call.                                                             *)
C19_SingleInstance ==
  (pc = "poll_while" /\ nSleep = 0) => Len(servers) <= MaxRunning

====
